---- MODULE Spec2Model ----
(***************************************************************************)
(* A model of tcpy_scanner (src/tcpy_scanner.py): the send/poll scheduler  *)
(* of ScannerTCP.start_scan, the rate governor of ScannerBase, the probe   *)
(* state registry (ProbeStateContainer / ProbeStateTcp) and the readiness  *)
(* classification of ScannerTCP.receive_packets.                           *)
(*                                                                         *)
(* Time is counted in ticks of 0.1 s (the default recv_interval), so every *)
(* duration of the program is a whole number of ticks for the inputs drawn *)
(* in Init.  Rates given per second are divided by TicksPerSecond; the     *)
(* comparisons of the code are kept exact by cross-multiplying.            *)
(***************************************************************************)
EXTENDS Integers, Sequences, FiniteSets, TLC

\* ------------------------------------------------------------------ bounds
MaxTime == 13          \* the clock stops advancing here
MaxTargets == 2        \* longest target list
MaxProbes == 3         \* largest max_probes (retries + 1)
MaxHighWater == 3      \* largest host_count_high_water
MaxPortParts == 3      \* most comma-separated parts of a port list
MaxYield == 5          \* most addresses taken from one target string
MaxSorted == 3         \* most records in a registry handed to sort
MaxCompleted == 2      \* most connects that complete at once, over a scan

\* --------------------------------------------------------- program constants
None == -1                       \* Python's None for times and sockets
TicksPerSecond == 10             \* recv_interval = 0.1 s is one tick
recv_interval_default == 1       \* 0.1 s
packet_overhead == 74
payload_len_estimate == 0
NoQuota == 100                   \* quota returned when no limit is configured
DeletedTimeKey == -1000          \* sort key of a tombstoned record, seconds
UnrankedPortKey == 100000        \* sort key of a port not in the table
POLLOUT == 4
POLLERR == 8
POLLHUP == 16
EPOLLOUT == 4
EPOLLRDHUP == 8192
SelectPOLLOUT == 1
SelectPOLLIN == 4
EINPROGRESS == 115               \* connect: operation now in progress
ENETUNREACH == 101               \* connect: network is unreachable

\* The head of port_popularity_nmap (most popular first).
port_popularity_nmap == <<80, 23, 443, 21, 22>>

Min(a, b) == IF a < b THEN a ELSE b
Max(a, b) == IF a > b THEN a ELSE b

\* event & bit, for a single-bit mask `bit`
HasBit(event, bit) == (event \div bit) % 2 = 1

RemoveAt(s, i) == SubSeq(s, 1, i - 1) \o SubSeq(s, i + 1, Len(s))

\* list.remove(x) / deque.remove(x): drops the first occurrence.
RemoveFirst(s, x) ==
    IF \E i \in 1..Len(s) : s[i] = x
    THEN RemoveAt(s, CHOOSE i \in 1..Len(s) :
                        s[i] = x /\ \A j \in 1..(i - 1) : s[j] # x)
    ELSE s

\* The -m value "auto" (main refuses numbers below 1).
auto == 0

\* set_max_sockets keeps this many descriptors free below the soft limit.
soft_limit_headroom == 10

\* ScannerTCP.__init__: the marks before set_max_sockets is called.
host_count_high_water_default == 100
host_count_low_water_default == 90

\* The addresses targets are drawn from.
IPs == {1, 2}

VARIABLES
    \* configuration, fixed by the setters before start_scan
    bandwidth_bits_per_second,
    packet_rate,
    max_probes,
    inter_packet_interval_per_host,
    recv_interval,
    host_count_high_water,
    host_count_low_water,
    \* the -p option as split at the commas: <<p>> for "p", <<a, b>> for "a-b"
    target_ports_unprocessed,
    probes,
    target_list_unprocessed,
    blocklist,
    show_closed_ports,
    poll_type,
    \* the -m option handed to set_max_sockets, and the soft limit on open
    \* files read from /proc/self/limits (None when it cannot be read)
    max_sockets,
    soft_open_files_limit,
    \* TargetGenerator: the target string being expanded, the loop variable
    \* of its range and the addresses yielded so far
    target,
    ip_int,
    yielded,
    \* clock
    now,
    scan_start_time_internal,
    next_recv_time,
    \* ProbeStateContainer and the records
    probe_states,
    ps,
    count,
    next_probe_id,
    socket_list,
    probe_states_by_fd,
    fd_list,
    open_fds,
    \* ScannerBase / start_scan
    bytes_sent,
    probes_sent_count,
    replies,
    more_hosts,
    generator_pos,
    packet_counter,
    pc,
    \* observation
    hist,
    \* the skip notices printed so far, per address
    skip_notices,
    \* the time of the last call of receive_packets (the scan start before)
    last_recv_time,
    \* start_scan's local: the time of the last send, None before the first
    last_send_time,
    \* sleep_reasons: the sleeps of wait_for_quotas counted per reason
    sleep_reasons,
    \* the event masks warned about, and the warnings printed per mask
    warned_about_socket_events,
    event_warnings,
    \* the addresses warned about as unreachable, and the warnings printed
    \* per address
    warned_about_unreachable_network,
    unreachable_warnings,
    \* the calls of socket.socket() so far (each socket is connected once)
    sockets_created,
    \* the probes_sent of the records unlinked from the registry, summed
    probes_sent_unlinked,
    \* the network: the addresses connect fails for with ENETUNREACH, and
    \* those it can complete for at once (no exception)
    unreachable_ips,
    immediate_ips

enumvars == <<target, ip_int, yielded>>

netvars == <<unreachable_ips, immediate_ips>>

cfgvars == <<bandwidth_bits_per_second, packet_rate, max_probes,
             inter_packet_interval_per_host, recv_interval,
             host_count_high_water, host_count_low_water,
             target_ports_unprocessed, probes,
             target_list_unprocessed, blocklist, show_closed_ports,
             poll_type, max_sockets, soft_open_files_limit, enumvars,
             netvars, scan_start_time_internal>>

regvars == <<probe_states, count, ps, socket_list, probe_states_by_fd,
             fd_list, open_fds, replies, hist, skip_notices,
             last_recv_time, last_send_time, sleep_reasons,
             warned_about_socket_events, event_warnings,
             warned_about_unreachable_network, unreachable_warnings,
             sockets_created, probes_sent_unlinked>>

\* What start_scan works on: untouched while main configures the scanner.
scanvars == <<now, next_recv_time, next_probe_id, regvars, bytes_sent,
              probes_sent_count, more_hosts, generator_pos, packet_counter>>

vars == <<cfgvars, now, next_recv_time, next_probe_id, regvars, bytes_sent,
          probes_sent_count, more_hosts, generator_pos, packet_counter, pc>>


\* ------------------------------------------------------------ configuration

\* ScannerBase.set_inter_packet_interval, in ticks.
inter_packet_interval ==
    (8 * (payload_len_estimate + packet_overhead) * TicksPerSecond)
        \div bandwidth_bits_per_second

\* ScannerTCP.set_rtt: recv_interval for a round-trip time of rtt ticks.
set_rtt_recv_interval(rtt) ==
    IF rtt < recv_interval_default * 4 THEN rtt \div 4
    ELSE recv_interval_default

\* max_socks_multiplier = 1.5, as the fraction 3 / 2.
max_socks_multiplier == <<3, 2>>

\* max_socks_multiplier * inter_packet_interval_per_host /
\* inter_packet_interval as an exact fraction: the per-host interval is in
\* ticks and inter_packet_interval is 8 * (payload + overhead) / bandwidth
\* seconds.
queue_length_numerator ==
    max_socks_multiplier[1] * inter_packet_interval_per_host
        * bandwidth_bits_per_second

queue_length_denominator ==
    max_socks_multiplier[2] * TicksPerSecond
        * 8 * (payload_len_estimate + packet_overhead)

\* Faulty variant: the ratio is rounded to the nearest integer.
get_queue_length_suggestion_rounded ==
    (2 * queue_length_numerator + queue_length_denominator)
        \div (2 * queue_length_denominator)

\* ScannerTCP.get_queue_length_suggestion: int(...) drops the fraction.
get_queue_length_suggestion ==
    queue_length_numerator \div queue_length_denominator

\* ScannerTCP.set_max_sockets: the high-water mark asked for (or suggested,
\* for "auto"), reduced to the soft limit less soft_limit_headroom when it
\* is above the soft limit, and the low-water mark int(0.9 * high water).
\* The hard limit is read from the same line as the soft limit and is known
\* whenever the soft limit is.
set_max_sockets(param) ==
    LET requested == IF param = auto THEN get_queue_length_suggestion
                     ELSE param
        high_water ==
            IF /\ soft_open_files_limit # None
               /\ soft_open_files_limit # 0
               /\ requested > soft_open_files_limit
            THEN soft_open_files_limit - soft_limit_headroom
            ELSE requested
    IN  [host_count_high_water |-> high_water,
         host_count_low_water |-> (9 * high_water) \div 10]

\* port_sort of set_probes: the position in the popularity table.
port_sort(port) ==
    IF \E i \in 1..Len(port_popularity_nmap) : port_popularity_nmap[i] = port
    THEN (CHOOSE i \in 1..Len(port_popularity_nmap) :
              port_popularity_nmap[i] = port) - 1
    ELSE UnrankedPortKey

\* sorted(list, key=port_sort) is stable: an element goes after every element
\* already placed whose key is not larger.
InsertByKey(s, p) ==
    LET n == Cardinality({i \in 1..Len(s) : port_sort(s[i]) <= port_sort(p)})
    IN  SubSeq(s, 1, n) \o <<p>> \o SubSeq(s, n + 1, Len(s))

RECURSIVE SortedByKey(_)
SortedByKey(s) ==
    IF s = <<>> THEN <<>>
    ELSE InsertByKey(SortedByKey(SubSeq(s, 1, Len(s) - 1)), s[Len(s)])

\* range(first, last + 1) as a sequence.
range(first, last) ==
    IF last < first THEN <<>> ELSE [i \in 1..(last - first + 1) |-> first + i - 1]

\* The first loop of set_probes: every port of every comma-separated part
\* is appended, int(...) of a single port or the ports of a range.
RECURSIVE ports_named(_)
ports_named(port_list_str) ==
    IF port_list_str = <<>> THEN <<>>
    ELSE LET ports_str == Head(port_list_str)
         IN  (IF Len(ports_str) = 2 THEN range(ports_str[1], ports_str[2])
              ELSE <<ports_str[1]>>)
                 \o ports_named(Tail(port_list_str))

\* Faulty variant: the ports stay in the order given.
set_probes_unsorted(port_list_str) == ports_named(port_list_str)

\* ScannerTCP.set_probes: every port named is kept (a port named twice
\* stays twice, no port is refused), ordered by popularity.
set_probes(port_list_str) == SortedByKey(ports_named(port_list_str))

\* int(ipaddress.ip_address(s)) for the dotted quad s = <<a, b, c, d>>.
ip_address(s) == ((s[1] * 256 + s[2]) * 256 + s[3]) * 256 + s[4]

\* str(ipaddress.ip_address(n)) for the 32-bit integer n.
ip_str(n) ==
    <<n \div 16777216, (n \div 65536) % 256, (n \div 256) % 256, n % 256>>

\* 2 ^ k
RECURSIVE pow2(_)
pow2(k) == IF k = 0 THEN 1 ELSE 2 * pow2(k - 1)

\* ipaddress.ip_network(cidr, False): the host bits of the address are
\* dropped.
network_address(cidr) ==
    (ip_address(cidr.address) \div pow2(32 - cidr.netmask))
        * pow2(32 - cidr.netmask)

\* Faulty variant: the broadcast address is left out.
broadcast_address_left_out(cidr) ==
    network_address(cidr) + pow2(32 - cidr.netmask) - 2

broadcast_address(cidr) ==
    network_address(cidr) + pow2(32 - cidr.netmask) - 1

\* Faulty variant: the end of the range is left out.
ip_range_end_left_out(ip_range) == ip_address(ip_range.end) - 1

\* _get_targets_from_ip_range: int(ip_range_end), the last value of
\* range(int(ip_range_start), int(ip_range_end) + 1).
ip_range_end(ip_range) == ip_address(ip_range.end)

\* TargetGenerator._get_targets for a list of single addresses.
get_targets == target_list_unprocessed

\* TargetGenerator.get_probe_state_generator: the k-th record it yields
\* (column-major: all targets for probe index 0, then for index 1, ...).
generator_length == Len(probes) * Len(get_targets)

generator_item(k) ==
    LET probe_index == (k - 1) \div Len(get_targets)
        t == get_targets[((k - 1) % Len(get_targets)) + 1]
    IN  [target_ip |-> t, target_port |-> probes[probe_index + 1],
         probe_index |-> probe_index]

\* ------------------------------------------------------------- rate governor

\* 8 * TicksPerSecond * (bytes_sent_target - bytes_sent)
bytes_left_scaled ==
    bandwidth_bits_per_second * (now - scan_start_time_internal)
        - 8 * TicksPerSecond * bytes_sent

\* ScannerBase.get_available_bandwidth_quota_packets:
\* int(8 * bytes_left / float(packet_overhead)), 0 when bytes_left <= 0.
get_available_bandwidth_quota_packets ==
    IF bytes_left_scaled <= 0 THEN 0
    ELSE (8 * bytes_left_scaled) \div (8 * TicksPerSecond * packet_overhead)

\* TicksPerSecond * (probes_sent_target - probes_sent_count)
packets_left_scaled ==
    packet_rate * (now - scan_start_time_internal)
        - TicksPerSecond * probes_sent_count

\* Faulty variant: the packet-rate limit is not applied (the sentinel is
\* returned whatever packet_rate is).
packet_rate_quota_ignored == NoQuota * TicksPerSecond

\* ScannerBase.get_available_packet_rate_quota_packets, times TicksPerSecond
\* (the code returns the fraction packets_left itself).
get_available_packet_rate_quota_packets ==
    IF packet_rate = 0 THEN NoQuota * TicksPerSecond
    ELSE IF packets_left_scaled <= 0 THEN 0
    ELSE packets_left_scaled

\* ScannerBase.get_available_quota_packets: int(min(bandwidth, rate)).
get_available_quota_packets ==
    Min(get_available_bandwidth_quota_packets * TicksPerSecond,
        get_available_packet_rate_quota_packets) \div TicksPerSecond

\* ------------------------------------------------------------------ registry

\* ProbeStateTcp.__init__
ProbeStateTcp(ip, port, probe_index, probe_id) ==
    [target_ip |-> ip, target_port |-> port, probe_index |-> probe_index,
     probe_sent_time |-> None, probes_sent |-> 0, socket |-> None,
     deleted |-> FALSE, probe_id |-> probe_id]

\* sort_func of ProbeStateContainer.sort: the time key, in ticks.
time_key(p, interval, t) ==
    IF p.deleted THEN DeletedTimeKey * TicksPerSecond
    ELSE IF p.probe_sent_time = None THEN 0
    ELSE p.probe_sent_time + interval - t

\* (time_key, probe_id) of a precedes that of b.
sort_less(P, a, b, interval, t) ==
    \/ time_key(P[a], interval, t) < time_key(P[b], interval, t)
    \/ /\ time_key(P[a], interval, t) = time_key(P[b], interval, t)
       /\ P[a].probe_id < P[b].probe_id

\* ProbeStateContainer.sort: sorted(list_q, key=sort_func).
RECURSIVE sort(_, _, _, _)
sort(q, P, interval, t) ==
    IF q = <<>> THEN <<>>
    ELSE LET i == CHOOSE i \in 1..Len(q) :
                    \A j \in 1..Len(q) :
                        j # i => ~sort_less(P, q[j], q[i], interval, t)
         IN  <<q[i]>> \o sort(RemoveAt(q, i), P, interval, t)



\* The registry (ProbeStateContainer, the records in it, the poller and the
\* descriptors open in the process), passed through the operations below.
\* ps and hist hold the records the registry still refers to.
Registry ==
    [probe_states |-> probe_states, count |-> count, ps |-> ps,
     socket_list |-> socket_list, probe_states_by_fd |-> probe_states_by_fd,
     fd_list |-> fd_list, open_fds |-> open_fds, replies |-> replies,
     hist |-> hist, skip_notices |-> skip_notices,
     last_recv_time |-> last_recv_time, last_send_time |-> last_send_time,
     sleep_reasons |-> sleep_reasons,
     warned_about_socket_events |-> warned_about_socket_events,
     event_warnings |-> event_warnings,
     warned_about_unreachable_network |-> warned_about_unreachable_network,
     unreachable_warnings |-> unreachable_warnings,
     sockets_created |-> sockets_created,
     probes_sent_unlinked |-> probes_sent_unlinked]

Commit(R) ==
    /\ probe_states' = R.probe_states
    /\ count' = R.count
    /\ ps' = R.ps
    /\ socket_list' = R.socket_list
    /\ probe_states_by_fd' = R.probe_states_by_fd
    /\ fd_list' = R.fd_list
    /\ open_fds' = R.open_fds
    /\ replies' = R.replies
    /\ hist' = R.hist
    /\ skip_notices' = R.skip_notices
    /\ last_recv_time' = R.last_recv_time
    /\ last_send_time' = R.last_send_time
    /\ sleep_reasons' = R.sleep_reasons
    /\ warned_about_socket_events' = R.warned_about_socket_events
    /\ event_warnings' = R.event_warnings
    /\ warned_about_unreachable_network' = R.warned_about_unreachable_network
    /\ unreachable_warnings' = R.unreachable_warnings
    /\ sockets_created' = R.sockets_created
    /\ probes_sent_unlinked' = R.probes_sent_unlinked

\* History kept beside a record: the time of its first send, the event masks
\* delivered for it and the result lines printed for it.
NewHist == [first_sent |-> None, events |-> <<>>,
            open_lines |-> 0, closed_lines |-> 0]

\* A record nothing refers to any more is dropped.
forget(R, id) ==
    [R EXCEPT !.ps = [i \in (DOMAIN @) \ {id} |-> @[i]],
              !.hist = [i \in (DOMAIN @) \ {id} |-> @[i]],
              !.probes_sent_unlinked = @ + R.ps[id].probes_sent]

\* ProbeStateContainer.add_probe_state, called by ProbeStateTcp.__init__.
add_probe_state(R, rec) ==
    [R EXCEPT
        !.count = @ + 1,
        !.probe_states = <<rec.probe_id>> \o @,
        !.ps = [i \in (DOMAIN @) \cup {rec.probe_id} |->
                   IF i = rec.probe_id THEN rec ELSE @[i]],
        !.hist = [i \in (DOMAIN @) \cup {rec.probe_id} |->
                     IF i = rec.probe_id THEN NewHist ELSE @[i]]]

\* socket.socket(): the lowest descriptor not open.
new_fd(R) == CHOOSE fd \in 1..(Cardinality(R.open_fds) + 1) :
                 /\ fd \notin R.open_fds
                 /\ \A g \in 1..(fd - 1) : g \in R.open_fds

\* Faulty variant: the descriptor stays registered with the poller.
delete_socket_still_registered(R, id) ==
    IF R.ps[id].socket = None THEN R
    ELSE LET fd == R.ps[id].socket
         IN  [R EXCEPT
                 !.socket_list = RemoveFirst(@, fd),
                 !.probe_states_by_fd =
                     [f \in (DOMAIN @) \ {fd} |-> @[f]],
                 !.open_fds = @ \ {fd},
                 !.ps[id].socket = None]

\* ProbeStateTcp.delete_socket: unregister, drop from socket_list and from
\* probe_states_by_fd, close.
delete_socket(R, id) ==
    IF R.ps[id].socket = None THEN R
    ELSE LET fd == R.ps[id].socket
         IN  [R EXCEPT
                 !.fd_list = RemoveFirst(@, fd),
                 !.socket_list = RemoveFirst(@, fd),
                 !.probe_states_by_fd =
                     [f \in (DOMAIN @) \ {fd} |-> @[f]],
                 !.open_fds = @ \ {fd},
                 !.ps[id].socket = None]

\* Faulty variant: the previous socket of the record is not deleted.
set_socket_keeping_old(R, id, fd) ==
    [R EXCEPT
        !.ps[id].socket = fd,
        !.socket_list = Append(@, fd),
        !.probe_states_by_fd =
            [f \in (DOMAIN @) \cup {fd} |-> IF f = fd THEN id ELSE @[f]],
        !.fd_list = Append(@, fd)]

\* ProbeStateTcp.set_socket for a socket just opened on descriptor fd.
set_socket(R, id, fd) ==
    LET D == IF R.ps[id].socket # None THEN delete_socket(R, id) ELSE R
    IN  [D EXCEPT
            !.ps[id].socket = fd,
            !.socket_list = Append(@, fd),
            !.probe_states_by_fd =
                [f \in (DOMAIN @) \cup {fd} |-> IF f = fd THEN id ELSE @[f]],
            !.fd_list = Append(@, fd)]

\* Faulty variant: the socket is deleted but the record is not flagged.
schedule_delete_unmarked(R, id) == delete_socket(R, id)

\* Faulty variant: the record is flagged but keeps its socket.
schedule_delete_keeping_socket(R, id) == [R EXCEPT !.ps[id].deleted = TRUE]

\* ProbeStateTcp.schedule_delete
schedule_delete(R, id) ==
    LET D == delete_socket(R, id)
    IN  [D EXCEPT !.ps[id].deleted = TRUE]

\* ProbeStateContainer.delete_probe_state
delete_probe_state(R, id) ==
    LET D == delete_socket(R, id)
    IN  forget([D EXCEPT !.count = @ - 1,
                         !.probe_states = RemoveFirst(@, id)], id)

\* Faulty variant: the record is unlinked but still counted.
popleft_uncounted(R) ==
    IF Len(R.probe_states) = 0 THEN R
    ELSE forget([R EXCEPT !.probe_states = Tail(@)], Head(R.probe_states))

\* ProbeStateContainer.popleft
popleft(R) ==
    IF Len(R.probe_states) = 0 THEN R
    ELSE forget([R EXCEPT !.count = @ - 1, !.probe_states = Tail(@)],
                Head(R.probe_states))

\* Faulty variant: the record stays at the left end.
next_staying(R) == R

\* ProbeStateContainer.next: the left-most record goes to the right end.
next(R) ==
    IF Len(R.probe_states) = 0 THEN R
    ELSE [R EXCEPT !.probe_states = Tail(@) \o <<Head(@)>>]

\* ProbeStateContainer.peekleft, for a registry that is not empty.
peekleft == ps[Head(probe_states)]

\* ------------------------------------------------------------------- receive

\* Faulty variant: on the poll backend one of hangup and error is enough
\* for closed.
Classify_either(backend, event) ==
    IF backend = "epoll"
    THEN IF HasBit(event, EPOLLRDHUP) THEN "closed" ELSE "open"
    ELSE IF backend = "poll"
    THEN IF HasBit(event, POLLHUP) \/ HasBit(event, POLLERR) THEN "closed"
         ELSE "open"
    ELSE IF HasBit(event, SelectPOLLIN) /\ HasBit(event, SelectPOLLOUT)
         THEN "closed"
         ELSE IF HasBit(event, SelectPOLLOUT) /\ ~HasBit(event, SelectPOLLIN)
         THEN "open"
         ELSE "unexpected"

\* The verdict receive_packets reaches for an event mask on each backend.
Classify(backend, event) ==
    IF backend = "epoll"
    THEN IF HasBit(event, EPOLLRDHUP) THEN "closed" ELSE "open"
    ELSE IF backend = "poll"
    THEN IF HasBit(event, POLLHUP) /\ HasBit(event, POLLERR) THEN "closed"
         ELSE IF ~HasBit(event, POLLHUP) /\ ~HasBit(event, POLLERR)
         THEN "open"
         ELSE "unexpected"
    ELSE IF HasBit(event, SelectPOLLIN) /\ HasBit(event, SelectPOLLOUT)
         THEN "closed"
         ELSE IF HasBit(event, SelectPOLLOUT) /\ ~HasBit(event, SelectPOLLIN)
         THEN "open"
         ELSE "unexpected"

PollTypes == {"poll", "epoll", "select"}

\* Event masks a connecting socket can report on each backend: connected,
\* reset, and (poll, select) a mask of neither kind.
EventMasks(backend) ==
    IF backend = "epoll"
    THEN {EPOLLOUT, EPOLLOUT + EPOLLRDHUP + POLLERR + POLLHUP}
    ELSE IF backend = "poll"
    THEN {POLLOUT, POLLOUT + POLLERR + POLLHUP, POLLOUT + POLLHUP}
    ELSE {SelectPOLLOUT, SelectPOLLIN + SelectPOLLOUT, SelectPOLLIN}

\* What poll(0) can return: at most one event per watched descriptor.
PollResults ==
    UNION {[E -> EventMasks(poll_type)] :
               E \in SUBSET {fd_list[i] : i \in 1..Len(fd_list)}}

\* The list of (fd, event) pairs of a poll result, by ascending descriptor.
RECURSIVE fd_event_tuples(_)
fd_event_tuples(m) ==
    IF DOMAIN m = {} THEN <<>>
    ELSE LET fd == CHOOSE f \in DOMAIN m : \A g \in DOMAIN m : f <= g
         IN  <<(<<fd, m[fd]>>)>>
                 \o fd_event_tuples([g \in (DOMAIN m) \ {fd} |-> m[g]])

\* Every event mask of every backend.
AllEventMasks == UNION {EventMasks(backend) : backend \in PollTypes}

\* The "[W] Socket found with unexpected event" branches: the poll branch
\* prints when the mask is not in warned_about_socket_events and adds it;
\* the select branch prints every time.
warn_unexpected(R, backend, event) ==
    IF backend = "poll"
    THEN IF event \in R.warned_about_socket_events THEN R
         ELSE [R EXCEPT !.warned_about_socket_events = @ \cup {event},
                        !.event_warnings[event] = @ + 1]
    ELSE [R EXCEPT !.event_warnings[event] = @ + 1]

\* The body of the for loop of receive_packets for one (fd, event).
receive_one(R, fd, event) ==
    IF fd \notin DOMAIN R.probe_states_by_fd THEN R
    ELSE LET id == R.probe_states_by_fd[fd]
             verdict == Classify(poll_type, event)
             seen == [R EXCEPT !.hist[id].events = Append(@, event)]
             told ==
                 IF verdict = "open"
                 THEN [seen EXCEPT !.hist[id].open_lines = @ + 1,
                                   !.replies = @ + 1]
                 ELSE IF verdict = "closed"
                 THEN IF show_closed_ports
                      THEN [seen EXCEPT !.hist[id].closed_lines = @ + 1]
                      ELSE seen
                 ELSE warn_unexpected(seen, poll_type, event)
         IN  IF R.ps[id].deleted THEN R
             ELSE schedule_delete(told, id)

RECURSIVE receive_events(_, _)
receive_events(R, evs) ==
    IF evs = <<>> THEN R
    ELSE receive_events(receive_one(R, evs[1][1], evs[1][2]), Tail(evs))

\* ScannerTCP.receive_packets(socket_list) when poll(0) returns m.
receive_packets(R, m) ==
    IF R.socket_list = <<>> THEN R
    ELSE receive_events(R, fd_event_tuples(m))

\* A call of receive_packets at time t.
receive_packets_at(R, m, t) ==
    [receive_packets(R, m) EXCEPT !.last_recv_time = t]

\* ------------------------------------------------------------- configuration

Bandwidths == {5920, 1480}      \* bits/s: one probe per 1 tick, per 4 ticks
PacketRates == {0, 5}           \* packets/s, 0 = unlimited
RoundTripTimes == {4}           \* ticks

TargetLists == UNION {[1..n -> IPs] : n \in 1..MaxTargets}
PortLists == {<< <<80>> >>, << <<443>>, <<80>> >>}    \* "80", "443,80"
BlockLists == {{}, {1}}
UnreachableLists == {{}, {1}, {1, 2}}   \* e.g. broadcast addresses
ImmediateLists == {{}, {2}}             \* e.g. an address of this host

\* The configurations explored: the pacing options, the target options, the
\* receive options, the port list and the network each take every value
\* while the other groups keep their usual value, and the block list is also
\* combined with every port list; max_probes and the high-water mark are
\* free throughout.
usual_pacing == bandwidth_bits_per_second = 5920 /\ packet_rate = 0
usual_target_list == target_list_unprocessed = <<1, 2>>
usual_targets == usual_target_list /\ blocklist = {}
usual_receive == poll_type = "poll" /\ show_closed_ports
usual_ports == probes = <<80>>

\* Every connect is answered by "operation now in progress".
usual_network == unreachable_ips = {} /\ immediate_ips = {}

Configured ==
    \/ usual_targets /\ usual_receive /\ usual_ports /\ usual_network
    \/ usual_pacing /\ usual_receive /\ usual_ports /\ usual_network
    \/ usual_pacing /\ usual_targets /\ usual_ports /\ usual_network
    \/ usual_pacing /\ usual_targets /\ usual_receive /\ usual_network
    \/ usual_pacing /\ usual_target_list /\ usual_receive /\ usual_network
    \/ usual_pacing /\ usual_targets /\ usual_receive /\ usual_ports

\* No target string is being expanded.
NotEnumerating ==
    /\ target = <<>>
    /\ ip_int = None
    /\ yielded = <<>>

\* start_scan zeroes the three counters of sleep_reasons.
NoSleeps == [packet_quota |-> 0, bandwidth_quota |-> 0, port_states |-> 0]

\* The scanner as constructed, before start_scan has taken a step.
NotStarted ==
    /\ now = 1
    /\ scan_start_time_internal = 1
    /\ next_recv_time = 0
    /\ probe_states = <<>>
    /\ ps = <<>>
    /\ count = 0
    /\ next_probe_id = 0
    /\ socket_list = <<>>
    /\ probe_states_by_fd = <<>>
    /\ fd_list = <<>>
    /\ open_fds = {}
    /\ bytes_sent = 0
    /\ probes_sent_count = 0
    /\ replies = 0
    /\ more_hosts = TRUE
    /\ generator_pos = 1
    /\ packet_counter = 0
    /\ hist = <<>>
    /\ skip_notices = [ip \in IPs |-> 0]
    /\ last_recv_time = scan_start_time_internal
    /\ last_send_time = None
    /\ sleep_reasons = NoSleeps
    /\ warned_about_socket_events = {}
    /\ event_warnings = [event \in AllEventMasks |-> 0]
    /\ warned_about_unreachable_network = {}
    /\ unreachable_warnings = [ip \in IPs |-> 0]
    /\ sockets_created = 0
    /\ probes_sent_unlinked = 0

\* The scan starts configured; the soft limit on open files is not known
\* (no /proc/self/limits), so the high-water mark is the one asked for.
Init ==
    /\ bandwidth_bits_per_second \in Bandwidths
    /\ packet_rate \in PacketRates
    /\ max_probes \in 1..MaxProbes
    /\ inter_packet_interval_per_host \in RoundTripTimes
    /\ recv_interval = set_rtt_recv_interval(inter_packet_interval_per_host)
    /\ max_sockets \in 1..MaxHighWater
    /\ soft_open_files_limit = None
    /\ host_count_high_water = set_max_sockets(max_sockets).host_count_high_water
    /\ host_count_low_water = set_max_sockets(max_sockets).host_count_low_water
    /\ target_ports_unprocessed \in PortLists
    /\ probes = set_probes(target_ports_unprocessed)
    /\ target_list_unprocessed \in TargetLists
    /\ blocklist \in BlockLists
    /\ show_closed_ports \in BOOLEAN
    /\ poll_type \in PollTypes
    /\ unreachable_ips \in UnreachableLists
    /\ immediate_ips \in ImmediateLists
    /\ Configured
    /\ NotEnumerating
    /\ NotStarted
    /\ pc = "top"

\* ------------------------------------------------------- start_scan: refill

\* "last_probe_time is None or now > last_probe_time + per-host interval"
probe_send_ok(p, t) ==
    \/ p.probe_sent_time = None
    \/ t > p.probe_sent_time + inter_packet_interval_per_host

\* Both quotas are positive.
quotas_ok ==
    /\ get_available_bandwidth_quota_packets > 0
    /\ get_available_packet_rate_quota_packets > 0

\* The next iteration of the main loop neither refills, sleeps nor visits a
\* record: the loop spins until the clock moves on.
spinning ==
    /\ ~(more_hosts /\ count < host_count_low_water)
    /\ quotas_ok
    /\ count > 0 => probe_send_ok(peekleft, now)
    /\ Min(get_available_quota_packets, count) = 0

\* The statements of the program take no time of their own; the clock moves
\* in the sleeps of wait_for_quotas and while the main loop spins, once the
\* spinning loop has made the receive pass that is due.
Tick ==
    /\ pc = "top"
    /\ now < MaxTime
    /\ spinning
    /\ ~(next_recv_time < now)
    /\ now' = now + 1
    /\ UNCHANGED <<cfgvars, next_recv_time, next_probe_id, regvars,
                   bytes_sent, probes_sent_count, more_hosts, generator_pos,
                   packet_counter, pc>>

\* "if more_hosts and count < host_count_low_water": enter the refill loop.
BeginRefill ==
    /\ pc = "top"
    /\ more_hosts /\ count < host_count_low_water
    /\ more_hosts' = FALSE
    /\ pc' = "fill"
    /\ UNCHANGED <<cfgvars, now, next_recv_time, next_probe_id, regvars,
                   bytes_sent, probes_sent_count, generator_pos,
                   packet_counter>>

SkipRefill ==
    /\ pc = "top"
    /\ ~(more_hosts /\ count < host_count_low_water)
    /\ pc' = "wait"
    /\ UNCHANGED <<cfgvars, now, next_recv_time, next_probe_id, regvars,
                   bytes_sent, probes_sent_count, more_hosts, generator_pos,
                   packet_counter>>

\* The generator yields: ProbeStateTcp.__init__ puts the new record at the
\* left end of the registry.
RefillCreate ==
    /\ pc = "fill"
    /\ generator_pos <= generator_length
    /\ LET item == generator_item(generator_pos)
       IN  Commit(add_probe_state(Registry,
                      ProbeStateTcp(item.target_ip, item.target_port,
                                    item.probe_index, next_probe_id)))
    /\ next_probe_id' = next_probe_id + 1
    /\ generator_pos' = generator_pos + 1
    /\ pc' = "fill_body"
    /\ UNCHANGED <<cfgvars, now, next_recv_time, bytes_sent,
                   probes_sent_count, more_hosts, packet_counter>>

\* ProbeStateContainer.sort applied to the registry at time t.
sorted(R, t) ==
    [R EXCEPT !.probe_states =
                  sort(@, R.ps, inter_packet_interval_per_host, t)]

\* The generator is exhausted: the for loop ends, the registry is sorted.
RefillExhausted ==
    /\ pc = "fill"
    /\ generator_pos > generator_length
    /\ Commit(sorted(Registry, now))
    /\ pc' = "wait"
    /\ UNCHANGED <<cfgvars, now, next_recv_time, next_probe_id, bytes_sent,
                   probes_sent_count, more_hosts, generator_pos,
                   packet_counter>>

\* Faulty variant: nothing is block-listed.
in_blocklist_never(ip) == FALSE

\* "if ps.target_ip in self.blocklist"
in_blocklist(ip) == ip \in blocklist

\* print("[i] Skipping target %s:%s because it is in the blocklist")
skip_notice(R, id) ==
    [R EXCEPT !.skip_notices[R.ps[id].target_ip] = @ + 1]

\* The record just created is block-listed: the notice is printed and the
\* record is removed again.
RefillSkipBlocked ==
    /\ pc = "fill_body"
    /\ in_blocklist(ps[next_probe_id - 1].target_ip)
    /\ Commit(delete_probe_state(skip_notice(Registry, next_probe_id - 1),
                                 next_probe_id - 1))
    /\ pc' = "fill"
    /\ UNCHANGED <<cfgvars, now, next_recv_time, next_probe_id, bytes_sent,
                   probes_sent_count, more_hosts, generator_pos,
                   packet_counter>>

\* Faulty variant: ">" for ">=".
high_water_exceeded(c) == c > host_count_high_water

\* "if count >= host_count_high_water"
high_water_reached(c) == c >= host_count_high_water

\* The record just created stays; at the high-water mark the loop breaks
\* with more_hosts set, and the registry is sorted.
RefillKeep ==
    /\ pc = "fill_body"
    /\ ~in_blocklist(ps[next_probe_id - 1].target_ip)
    /\ IF high_water_reached(count)
       THEN /\ more_hosts' = TRUE
            /\ Commit(sorted(Registry, now))
            /\ pc' = "wait"
       ELSE /\ pc' = "fill"
            /\ UNCHANGED <<more_hosts, regvars>>
    /\ UNCHANGED <<cfgvars, now, next_recv_time, next_probe_id, bytes_sent,
                   probes_sent_count, generator_pos, packet_counter>>


\* ----------------------------------------------------------- wait_for_quotas

\* One more iteration of the while loop of wait_for_quotas is needed.
must_wait ==
    ~(quotas_ok /\ (count > 0 => probe_send_ok(peekleft, now)))

\* wait_for_quotas returns (its loop condition fails, or the registry is
\* empty); the send loop then runs range(min(quota, count)) iterations.
WaitReturn ==
    /\ pc = "wait"
    /\ ~must_wait
    /\ packet_counter' = Min(get_available_quota_packets, count)
    /\ pc' = "send"
    /\ UNCHANGED <<cfgvars, now, next_recv_time, next_probe_id, regvars,
                   bytes_sent, probes_sent_count, more_hosts, generator_pos>>

\* Faulty variant: inter_packet_interval is not taken into account.
wait_time_per_host ==
    IF quotas_ok /\ count > 0
    THEN peekleft.probe_sent_time + inter_packet_interval_per_host - now
    ELSE 0

\* wait_time of an iteration that has to sleep.
wait_time ==
    LET left == IF quotas_ok /\ count > 0
                THEN peekleft.probe_sent_time
                         + inter_packet_interval_per_host - now
                ELSE 0
    IN  Max(inter_packet_interval, left)

\* "update stats": force_bandwidth_quota_wait stays set when the bandwidth
\* quota is not positive; force_packet_quota_wait is cleared as soon as the
\* bandwidth quota is positive, before the packet-rate quota is looked at,
\* so every other iteration that has to sleep finds only
\* force_probe_state_wait set.
sleep_reason ==
    IF ~(get_available_bandwidth_quota_packets > 0) THEN "bandwidth_quota"
    ELSE "port_states"

\* self.sleep_reasons[...] += 1
count_sleep(R) == [R EXCEPT !.sleep_reasons[sleep_reason] = @ + 1]

\* time.sleep(wait_time) when wait_time <= recv_interval.
WaitSleep ==
    /\ pc = "wait"
    /\ must_wait
    /\ wait_time <= recv_interval
    /\ now + wait_time <= MaxTime
    /\ Commit(count_sleep(Registry))
    /\ now' = now + wait_time
    /\ UNCHANGED <<cfgvars, next_recv_time, next_probe_id,
                   bytes_sent, probes_sent_count, more_hosts, generator_pos,
                   packet_counter, pc>>

\* wait_time > recv_interval: a receive pass, then time.sleep(recv_interval).
WaitReceiveSleep ==
    /\ pc = "wait"
    /\ must_wait
    /\ wait_time > recv_interval
    /\ now + recv_interval <= MaxTime
    /\ \E m \in PollResults :
           Commit(receive_packets_at(count_sleep(Registry), m, now))
    /\ now' = now + recv_interval
    /\ UNCHANGED <<cfgvars, next_recv_time, next_probe_id, bytes_sent,
                   probes_sent_count, more_hosts, generator_pos,
                   packet_counter, pc>>

\* ------------------------------------------------------ start_scan: send loop

\* Faulty variants of the retirement test: ">" for ">=", the interval test
\* left out, and one probe too few.
retire_due_strict(p, t) ==
    /\ ~p.deleted
    /\ p.probes_sent > max_probes
    /\ t > p.probe_sent_time + inter_packet_interval_per_host

retire_due_no_interval(p, t) ==
    /\ ~p.deleted
    /\ p.probes_sent >= max_probes

retire_due_early(p, t) ==
    /\ ~p.deleted
    /\ p.probes_sent >= max_probes - 1
    /\ t > p.probe_sent_time + inter_packet_interval_per_host

\* "not ps.deleted and ps.probes_sent >= max_probes
\*  and now > ps.probe_sent_time + per-host interval"
retire_due(p, t) ==
    /\ ~p.deleted
    /\ p.probes_sent >= max_probes
    /\ t > p.probe_sent_time + inter_packet_interval_per_host

\* "if ps.probes_sent >= self.max_probes: break"
retries_exhausted(p) == p.probes_sent >= max_probes

\* Faulty variant: the per-host interval is not added.
sent_too_recently_no_interval(p, t) ==
    /\ p.probe_sent_time # None
    /\ p.probe_sent_time > t

\* "elif ps.probe_sent_time is not None and
\*       ps.probe_sent_time + per-host interval > now: break"
sent_too_recently(p, t) ==
    /\ p.probe_sent_time # None
    /\ p.probe_sent_time + inter_packet_interval_per_host > t

\* range(min(packet_count_to_send, count)) is used up.
SendLoopEnd ==
    /\ pc = "send"
    /\ packet_counter = 0
    /\ pc' = "recv"
    /\ UNCHANGED <<cfgvars, now, next_recv_time, next_probe_id, regvars,
                   bytes_sent, probes_sent_count, more_hosts, generator_pos,
                   packet_counter>>

\* The left-most record has used its probes and its last interval is over:
\* schedule_delete.  The same iteration goes on in SendReap.
SendRetire ==
    /\ pc = "send"
    /\ packet_counter > 0 /\ count > 0
    /\ retire_due(peekleft, now)
    /\ Commit(schedule_delete(Registry, Head(probe_states)))
    /\ UNCHANGED <<cfgvars, now, next_recv_time, next_probe_id, bytes_sent,
                   probes_sent_count, more_hosts, generator_pos,
                   packet_counter, pc>>

\* The left-most record is tombstoned: popleft, continue.
SendReap ==
    /\ pc = "send"
    /\ packet_counter > 0 /\ count > 0
    /\ peekleft.deleted
    /\ Commit(popleft(Registry))
    /\ packet_counter' = packet_counter - 1
    /\ UNCHANGED <<cfgvars, now, next_recv_time, next_probe_id, bytes_sent,
                   probes_sent_count, more_hosts, generator_pos, pc>>

\* The left-most record waits for its interval: break.
SendBreak ==
    /\ pc = "send"
    /\ packet_counter > 0 /\ count > 0
    /\ ~peekleft.deleted
    /\ ~retire_due(peekleft, now)
    /\ retries_exhausted(peekleft) \/ sent_too_recently(peekleft, now)
    /\ pc' = "recv"
    /\ UNCHANGED <<cfgvars, now, next_recv_time, next_probe_id, regvars,
                   bytes_sent, probes_sent_count, more_hosts, generator_pos,
                   packet_counter>>

\* What connect does for an address of the network, where it raises:
\* ENETUNREACH for an unreachable address, EINPROGRESS otherwise.
connect_errno(ip) ==
    IF ip \in unreachable_ips THEN ENETUNREACH ELSE EINPROGRESS

\* connect can also return without an exception: the connection is complete.
connect_can_complete(ip) ==
    ip \in immediate_ips /\ ip \notin unreachable_ips

\* Faulty variant: the warning is printed for every failed connect.
warn_unreachable_always(R, ip) ==
    [R EXCEPT !.warned_about_unreachable_network = @ \cup {ip},
              !.unreachable_warnings[ip] = @ + 1]

\* "if not ps.target_ip in self.warned_about_unreachable_network": the
\* address is added and the warning printed.
warn_unreachable(R, ip) ==
    IF ip \in R.warned_about_unreachable_network THEN R
    ELSE [R EXCEPT !.warned_about_unreachable_network = @ \cup {ip},
                   !.unreachable_warnings[ip] = @ + 1]

\* One iteration of "while not sent" for the left-most record id at time t:
\* last_send_time is set, a socket is opened, connect is issued (errno is
\* what it raises, 0 when it returns), set_socket attaches the socket.
connect_once(R, id, t, errno) ==
    LET fd == new_fd(R)
        opened == [R EXCEPT !.open_fds = @ \cup {fd},
                            !.sockets_created = @ + 1,
                            !.last_send_time = t]
        warned == IF errno = ENETUNREACH
                  THEN warn_unreachable(opened, R.ps[id].target_ip)
                  ELSE opened
    IN  set_socket(warned, id, fd)

\* Faulty variant: the record's own count of probes is not incremented.
send_probe_uncounted(R, id, t, errno) ==
    next([connect_once(R, id, t, errno) EXCEPT
             !.ps[id].probe_sent_time = t,
             !.hist[id].first_sent = IF @ = None THEN t ELSE @])

\* The last iteration of "while not sent" (connect raises errno, which sets
\* sent) and the statements after the loop: the record is stamped and
\* rotated.
send_probe(R, id, t, errno) ==
    next([connect_once(R, id, t, errno) EXCEPT
             !.ps[id].probes_sent = @ + 1,
             !.ps[id].probe_sent_time = t,
             !.hist[id].first_sent = IF @ = None THEN t ELSE @])

\* The send branch is reached for the left-most record, or its
\* "while not sent" loop is running.
send_branch ==
    \/ pc = "connect"
    \/ /\ pc = "send"
       /\ packet_counter > 0 /\ count > 0
       /\ ~peekleft.deleted
       /\ ~retire_due(peekleft, now)
       /\ ~retries_exhausted(peekleft)
       /\ ~sent_too_recently(peekleft, now)

\* connect returns without an exception: sent stays False, the socket is
\* attached and the loop runs again.
SendConnected ==
    /\ send_branch
    /\ connect_can_complete(peekleft.target_ip)
    /\ sockets_created - probes_sent_count < MaxCompleted
    /\ Commit(connect_once(Registry, Head(probe_states), now, 0))
    /\ pc' = "connect"
    /\ UNCHANGED <<cfgvars, now, next_recv_time, next_probe_id, bytes_sent,
                   probes_sent_count, more_hosts, generator_pos,
                   packet_counter>>

SendProbe ==
    /\ send_branch
    /\ Commit(send_probe(Registry, Head(probe_states), now,
                         connect_errno(peekleft.target_ip)))
    /\ probes_sent_count' = probes_sent_count + 1
    /\ bytes_sent' = bytes_sent + 0 + packet_overhead
    /\ packet_counter' = packet_counter - 1
    /\ pc' = "send"
    /\ UNCHANGED <<cfgvars, now, next_recv_time, next_probe_id, more_hosts,
                   generator_pos>>

\* --------------------------------------------------------- start_scan: drain

\* "if self.next_recv_time < now" fails.
ReceiveSkip ==
    /\ pc = "recv"
    /\ ~(next_recv_time < now)
    /\ pc' = "top"
    /\ UNCHANGED <<cfgvars, now, next_recv_time, next_probe_id, regvars,
                   bytes_sent, probes_sent_count, more_hosts, generator_pos,
                   packet_counter>>

\* Faulty variant: tombstoned records are not counted.
receive_packets_returns_live(R) ==
    \E i \in 1..Len(R.probe_states) : ~R.ps[R.probe_states[i]].deleted

\* What receive_packets returns: "if count == 0: return False", else True.
receive_packets_returns(R) == R.count # 0

\* A receive pass; scan_running = receive_packets(...) or more_hosts.
ReceivePass ==
    /\ pc = "recv"
    /\ next_recv_time < now
    /\ next_recv_time' = now + recv_interval
    /\ \E m \in PollResults :
           LET R == receive_packets_at(Registry, m, now)
           IN  /\ Commit(R)
               /\ pc' = IF receive_packets_returns(R) \/ more_hosts
                        THEN "top" ELSE "final"
    /\ UNCHANGED <<cfgvars, now, next_probe_id, bytes_sent,
                   probes_sent_count, more_hosts, generator_pos,
                   packet_counter>>

\* "self.scan_duration = last_send_time - self.scan_start_time" raises a
\* TypeError when last_send_time is still None.
scan_duration_raises(R) == R.last_send_time = None

\* After the main loop: "recv any remaining packets", then the statistics;
\* start_scan returns ("done") or the exception leaves it ("raised").
FinalDrain ==
    /\ pc = "final"
    /\ \E m \in PollResults :
           LET R == receive_packets_at(Registry, m, now)
           IN  /\ Commit(R)
               /\ pc' = IF scan_duration_raises(R) THEN "raised" ELSE "done"
    /\ UNCHANGED <<cfgvars, now, next_recv_time, next_probe_id, bytes_sent,
                   probes_sent_count, more_hosts, generator_pos,
                   packet_counter>>

Next ==
    \/ Tick
    \/ BeginRefill
    \/ SkipRefill
    \/ RefillCreate
    \/ RefillExhausted
    \/ RefillSkipBlocked
    \/ RefillKeep
    \/ WaitReturn
    \/ WaitSleep
    \/ WaitReceiveSleep
    \/ SendLoopEnd
    \/ SendRetire
    \/ SendReap
    \/ SendBreak
    \/ SendConnected
    \/ SendProbe
    \/ ReceiveSkip
    \/ ReceivePass
    \/ FinalDrain

Spec == Init /\ [][Next]_vars

\* The program is one sequential loop: a step that can be taken is taken,
\* and the clock keeps advancing: a loop that comes back to its top again and
\* again does not do so within one instant.
LiveSpec == Spec /\ WF_vars(Next) /\ SF_vars(Tick)

\* ------------------------------------------------------- main: set_max_sockets

SizingBandwidths == {1480, 2960, 5920, 32000, 250000, 1000000}   \* bits/s
SizingRoundTripTimes == {1, 4, 5, 10}                            \* ticks
SizingMaxSockets == {auto, 1, 100, 246, 247, 256, 1014, 1015, 1024, 1025,
                     10000}
SizingSoftLimits == {None, 256, 1024}

\* main has built the scanner and called the setters before
\* set_max_sockets; the marks still have the constructor's values.
SizingInit ==
    /\ bandwidth_bits_per_second \in SizingBandwidths
    /\ packet_rate = 0
    /\ max_probes = 1
    /\ inter_packet_interval_per_host \in SizingRoundTripTimes
    /\ recv_interval = set_rtt_recv_interval(inter_packet_interval_per_host)
    /\ max_sockets \in SizingMaxSockets
    /\ soft_open_files_limit \in SizingSoftLimits
    /\ host_count_high_water = host_count_high_water_default
    /\ host_count_low_water = host_count_low_water_default
    /\ target_ports_unprocessed = << <<80>> >>
    /\ probes = set_probes(target_ports_unprocessed)
    /\ target_list_unprocessed = <<1, 2>>
    /\ blocklist = {}
    /\ show_closed_ports = TRUE
    /\ poll_type = "poll"
    /\ usual_network
    /\ NotEnumerating
    /\ NotStarted
    /\ pc = "main"

\* "scanner.set_max_sockets(max_sockets)"
SetMaxSockets ==
    /\ pc = "main"
    /\ host_count_high_water' =
           set_max_sockets(max_sockets).host_count_high_water
    /\ host_count_low_water' =
           set_max_sockets(max_sockets).host_count_low_water
    /\ pc' = "configured"
    /\ UNCHANGED <<bandwidth_bits_per_second, packet_rate, max_probes,
                   inter_packet_interval_per_host, recv_interval,
                   target_ports_unprocessed, probes,
                   target_list_unprocessed, blocklist, show_closed_ports,
                   poll_type, max_sockets, soft_open_files_limit, enumvars,
                   netvars, scan_start_time_internal, scanvars>>

SizingNext == SetMaxSockets

SizingSpec == SizingInit /\ [][SizingNext]_vars

\* ------------------------------------------------------------ main: set_probes

\* The parts a port list is made of: ports in and out of the popularity
\* table, ranges, and ports beyond both ends of 1..65535.
PortParts == {<<80>>, <<443>>, <<8080>>, <<1000>>, <<0>>, <<65536>>,
              <<22, 23>>, <<8080, 8082>>, <<65535, 65536>>, <<23, 22>>}

SizedPortLists == UNION {[1..n -> PortParts] : n \in 1..MaxPortParts}

\* main has built the scanner; set_probes has not been called.
PortsInit ==
    /\ bandwidth_bits_per_second = 5920
    /\ packet_rate = 0
    /\ max_probes = 1
    /\ inter_packet_interval_per_host = 4
    /\ recv_interval = set_rtt_recv_interval(inter_packet_interval_per_host)
    /\ max_sockets = auto
    /\ soft_open_files_limit = None
    /\ host_count_high_water = host_count_high_water_default
    /\ host_count_low_water = host_count_low_water_default
    /\ target_ports_unprocessed \in SizedPortLists
    /\ probes = <<>>
    /\ target_list_unprocessed = <<1, 2>>
    /\ blocklist = {}
    /\ show_closed_ports = TRUE
    /\ poll_type = "poll"
    /\ usual_network
    /\ NotEnumerating
    /\ NotStarted
    /\ pc = "main"

\* "scanner.set_probes(ports_str_list)"
SetProbes ==
    /\ pc = "main"
    /\ probes' = set_probes(target_ports_unprocessed)
    /\ pc' = "configured"
    /\ UNCHANGED <<bandwidth_bits_per_second, packet_rate, max_probes,
                   inter_packet_interval_per_host, recv_interval,
                   host_count_high_water, host_count_low_water,
                   target_ports_unprocessed,
                   target_list_unprocessed, blocklist, show_closed_ports,
                   poll_type, max_sockets, soft_open_files_limit, enumvars,
                   netvars, scan_start_time_internal, scanvars>>

PortsNext == SetProbes

PortsSpec == PortsInit /\ [][PortsNext]_vars

\* ------------------------------------------------- TargetGenerator: one target

Addresses == {<<10, 0, 0, 0>>, <<10, 0, 0, 2>>, <<10, 0, 0, 5>>,
              <<10, 0, 0, 255>>, <<10, 0, 1, 0>>, <<126, 255, 255, 254>>}
Netmasks == {0, 7, 8, 24, 29, 30, 31, 32, 33, 99}

\* The target strings _get_targets_from_string recognises: a dashed range,
\* a single address, an address with a netmask of one or two digits.
TargetStrings ==
    [kind : {"range"}, start : Addresses, end : Addresses]
        \cup [kind : {"ip"}, address : Addresses]
        \cup [kind : {"cidr"}, address : Addresses, netmask : Netmasks]

\* _get_targets_from_list hands one target string to
\* _get_targets_from_string.
TargetsInit ==
    /\ bandwidth_bits_per_second = 5920
    /\ packet_rate = 0
    /\ max_probes = 1
    /\ inter_packet_interval_per_host = 4
    /\ recv_interval = set_rtt_recv_interval(inter_packet_interval_per_host)
    /\ max_sockets = auto
    /\ soft_open_files_limit = None
    /\ host_count_high_water = host_count_high_water_default
    /\ host_count_low_water = host_count_low_water_default
    /\ target_ports_unprocessed = << <<80>> >>
    /\ probes = set_probes(target_ports_unprocessed)
    /\ target_list_unprocessed = <<1, 2>>
    /\ blocklist = {}
    /\ show_closed_ports = TRUE
    /\ poll_type = "poll"
    /\ usual_network
    /\ target \in TargetStrings
    /\ ip_int = None
    /\ yielded = <<>>
    /\ NotStarted
    /\ pc = "string"

enum_unchanged ==
    UNCHANGED <<bandwidth_bits_per_second, packet_rate, max_probes,
                inter_packet_interval_per_host, recv_interval,
                host_count_high_water, host_count_low_water,
                target_ports_unprocessed, probes, target_list_unprocessed,
                blocklist, show_closed_ports, poll_type, max_sockets,
                soft_open_files_limit, target, netvars,
                scan_start_time_internal, scanvars>>

\* A single address is yielded as it is.
StringIp ==
    /\ pc = "string"
    /\ target.kind = "ip"
    /\ yielded' = Append(yielded, target.address)
    /\ pc' = "exhausted"
    /\ UNCHANGED ip_int
    /\ enum_unchanged

\* _get_targets_from_ip_range: the for loop starts at int(ip_range_start).
RangeBegin ==
    /\ pc = "string"
    /\ target.kind = "range"
    /\ ip_int' = ip_address(target.start)
    /\ pc' = "range"
    /\ UNCHANGED yielded
    /\ enum_unchanged

\* "yield str(ipaddress.ip_address(ip_int))"
RangeYield ==
    /\ pc = "range"
    /\ ip_int <= ip_range_end(target)
    /\ Len(yielded) < MaxYield
    /\ yielded' = Append(yielded, ip_str(ip_int))
    /\ ip_int' = ip_int + 1
    /\ UNCHANGED pc
    /\ enum_unchanged

RangeEnd ==
    /\ pc = "range"
    /\ ip_int > ip_range_end(target)
    /\ pc' = "exhausted"
    /\ UNCHANGED <<ip_int, yielded>>
    /\ enum_unchanged

\* _get_target_ips_from_cidr: "[E] Netmask for ... is > 32" or "... is < 8",
\* sys.exit(0).
CidrExit ==
    /\ pc = "string"
    /\ target.kind = "cidr"
    /\ target.netmask > 32 \/ target.netmask < 8
    /\ pc' = "exited"
    /\ UNCHANGED <<ip_int, yielded>>
    /\ enum_unchanged

\* The for loop starts at the network address.
CidrBegin ==
    /\ pc = "string"
    /\ target.kind = "cidr"
    /\ ~(target.netmask > 32 \/ target.netmask < 8)
    /\ ip_int' = network_address(target)
    /\ pc' = "cidr"
    /\ UNCHANGED yielded
    /\ enum_unchanged

CidrYield ==
    /\ pc = "cidr"
    /\ ip_int <= broadcast_address(target)
    /\ Len(yielded) < MaxYield
    /\ yielded' = Append(yielded, ip_str(ip_int))
    /\ ip_int' = ip_int + 1
    /\ UNCHANGED pc
    /\ enum_unchanged

CidrEnd ==
    /\ pc = "cidr"
    /\ ip_int > broadcast_address(target)
    /\ pc' = "exhausted"
    /\ UNCHANGED <<ip_int, yielded>>
    /\ enum_unchanged

TargetsNext ==
    \/ StringIp
    \/ RangeBegin
    \/ RangeYield
    \/ RangeEnd
    \/ CidrExit
    \/ CidrBegin
    \/ CidrYield
    \/ CidrEnd

TargetsSpec == TargetsInit /\ [][TargetsNext]_vars

\* --------------------------------------------------- ProbeStateContainer.sort

\* The times at which sort is called, and the times the records were last
\* sent at: with the later time a record sent early is overdue by more than
\* 1000 seconds.
SortTimes == {5, 10100}
SentTimes == {None, 1, 3}

\* What a record has gone through: its last send (None: never sent) and
\* whether it was tombstoned afterwards.
Pasts == {q \in [probe_sent_time : SentTimes, deleted : BOOLEAN] :
              q.deleted => q.probe_sent_time # None}

\* An empty ProbeStateContainer.
EmptyRegistry ==
    [probe_states |-> <<>>, count |-> 0, ps |-> <<>>, socket_list |-> <<>>,
     probe_states_by_fd |-> <<>>, fd_list |-> <<>>, open_fds |-> {},
     replies |-> 0, hist |-> <<>>, skip_notices |-> [ip \in IPs |-> 0],
     last_recv_time |-> 1, last_send_time |-> None,
     sleep_reasons |-> NoSleeps,
     warned_about_socket_events |-> {},
     event_warnings |-> [event \in AllEventMasks |-> 0],
     warned_about_unreachable_network |-> {},
     unreachable_warnings |-> [ip \in IPs |-> 0],
     sockets_created |-> 0, probes_sent_unlinked |-> 0]

\* The registry after record id was created, sent as past says and, if past
\* says so, tombstoned.
with_record(R, id, past) ==
    LET created == add_probe_state(R, ProbeStateTcp(1, 80, 0, id))
        sent == IF past.probe_sent_time = None THEN created
                ELSE send_probe(created, id, past.probe_sent_time,
                                EINPROGRESS)
    IN  IF past.deleted THEN schedule_delete(sent, id) ELSE sent

\* The registry holding records 0 .. Len(pasts) - 1.
RECURSIVE registry_of(_)
registry_of(pasts) ==
    IF pasts = <<>> THEN EmptyRegistry
    ELSE with_record(registry_of(SubSeq(pasts, 1, Len(pasts) - 1)),
                     Len(pasts) - 1, pasts[Len(pasts)])

\* The orders the records 0 .. n - 1 can stand in.
Orders(n) ==
    {q \in [1..n -> 0..(n - 1)] : \A i, j \in 1..n : i # j => q[i] # q[j]}

\* The variables hold the registry R.
Holds(R) ==
    /\ probe_states = R.probe_states
    /\ count = R.count
    /\ ps = R.ps
    /\ socket_list = R.socket_list
    /\ probe_states_by_fd = R.probe_states_by_fd
    /\ fd_list = R.fd_list
    /\ open_fds = R.open_fds
    /\ replies = R.replies
    /\ hist = R.hist
    /\ skip_notices = R.skip_notices
    /\ last_recv_time = R.last_recv_time
    /\ last_send_time = R.last_send_time
    /\ sleep_reasons = R.sleep_reasons
    /\ warned_about_socket_events = R.warned_about_socket_events
    /\ event_warnings = R.event_warnings
    /\ warned_about_unreachable_network = R.warned_about_unreachable_network
    /\ unreachable_warnings = R.unreachable_warnings
    /\ sockets_created = R.sockets_created
    /\ probes_sent_unlinked = R.probes_sent_unlinked

\* A registry of up to MaxSorted records in any order, about to be sorted.
SortInit ==
    /\ bandwidth_bits_per_second = 5920
    /\ packet_rate = 0
    /\ max_probes = 1
    /\ inter_packet_interval_per_host = 4
    /\ recv_interval = set_rtt_recv_interval(inter_packet_interval_per_host)
    /\ max_sockets = MaxSorted + 1
    /\ soft_open_files_limit = None
    /\ host_count_high_water = set_max_sockets(max_sockets).host_count_high_water
    /\ host_count_low_water = set_max_sockets(max_sockets).host_count_low_water
    /\ target_ports_unprocessed = << <<80>> >>
    /\ probes = set_probes(target_ports_unprocessed)
    /\ target_list_unprocessed = <<1, 2>>
    /\ blocklist = {}
    /\ show_closed_ports = TRUE
    /\ poll_type = "poll"
    /\ usual_network
    /\ NotEnumerating
    /\ now \in SortTimes
    /\ scan_start_time_internal = 1
    /\ next_recv_time = now
    /\ \E n \in 1..MaxSorted :
           \E pasts \in [1..n -> Pasts], order \in Orders(n) :
               /\ Holds([registry_of(pasts) EXCEPT !.probe_states = order])
               /\ next_probe_id = n
    /\ probes_sent_count = Cardinality({id \in DOMAIN ps : ps[id].probes_sent > 0})
    /\ bytes_sent = packet_overhead * probes_sent_count
    /\ more_hosts = FALSE
    /\ generator_pos = 1
    /\ packet_counter = 0
    /\ pc = "unsorted"

\* "self.probe_states_container.sort(self.inter_packet_interval_per_host,
\* time.time())"
Sort ==
    /\ pc = "unsorted"
    /\ Commit(sorted(Registry, now))
    /\ pc' = "sorted"
    /\ UNCHANGED <<cfgvars, now, next_recv_time, next_probe_id, bytes_sent,
                   probes_sent_count, more_hosts, generator_pos,
                   packet_counter>>

SortNext == Sort

SortSpec == SortInit /\ [][SortNext]_vars

\* ------------------------------------------------------------------ properties

\* Records the registry refers to, and those among them never reported ready.
Records == DOMAIN ps
Silent(id) == hist[id].events = <<>>
Lines(id) == hist[id].open_lines + hist[id].closed_lines

\* C1: in every reachable state bytes_sent <= B * (now - scan_start) / 8
\* + packet_overhead (both sides multiplied by 8 * TicksPerSecond).
C1_BandwidthBound ==
    8 * TicksPerSecond * bytes_sent
        <= bandwidth_bits_per_second * (now - scan_start_time_internal)
               + 8 * TicksPerSecond * packet_overhead

\* C2: with packet_rate > 0, probes_sent_count <= packet_rate * (now -
\* scan_start) + 1 in every reachable state; with packet_rate 0 the batch
\* wait_for_quotas hands to the send loop is the bandwidth quota, capped by
\* the sentinel and by the registry count.
C2_PacketRateBound ==
    /\ [](packet_rate > 0 =>
            TicksPerSecond * probes_sent_count
                <= packet_rate * (now - scan_start_time_internal)
                       + TicksPerSecond)
    /\ [][(packet_rate = 0 /\ pc = "wait" /\ pc' = "send") =>
            packet_counter' =
                Min(Min(get_available_bandwidth_quota_packets, NoQuota),
                    count)]_vars

\* The packet-rate limit is in force, two probes are out and the target
\* probes_sent_target is met exactly.
C2_Witness ==
    /\ packet_rate > 0
    /\ probes_sent_count >= 2
    /\ TicksPerSecond * probes_sent_count
           = packet_rate * (now - scan_start_time_internal)

\* C3: whenever a record that was sent before is sent again, its new
\* probe_sent_time is at least per_host_interval after the previous one.
C3_SendSpacing ==
    [][\A id \in Records \cap DOMAIN ps' :
          (ps[id].probe_sent_time # None
               /\ ps'[id].probe_sent_time # ps[id].probe_sent_time)
          => ps'[id].probe_sent_time
                 >= ps[id].probe_sent_time + inter_packet_interval_per_host
      ]_vars

\* A record has been sent a second time.
C3_Witness ==
    \E id \in Records :
        /\ ps[id].probes_sent = 2
        /\ ~ps[id].deleted
        /\ ps[id].probe_sent_time
               >= hist[id].first_sent + inter_packet_interval_per_host

\* C4: connect attempts to one (ip, port) pair are at least
\* per_host_interval apart: two records of the registry for the same pair
\* that have both been sent carry send times that far apart.
C4_PairSpacing ==
    \A a, b \in Records :
        (/\ a # b
         /\ ps[a].target_ip = ps[b].target_ip
         /\ ps[a].target_port = ps[b].target_port
         /\ ps[a].probe_sent_time # None
         /\ ps[b].probe_sent_time # None
         /\ ps[a].probe_sent_time <= ps[b].probe_sent_time)
        => ps[b].probe_sent_time
               >= ps[a].probe_sent_time + inter_packet_interval_per_host

\* C5: the open descriptors, the registered descriptors and the socket list
\* each number at most host_count_high_water, every open descriptor is
\* registered, and a record owns at most one descriptor, the one in its
\* socket field.
C5_LiveSockets ==
    /\ Cardinality(open_fds) <= host_count_high_water
    /\ Len(fd_list) <= host_count_high_water
    /\ Len(socket_list) <= host_count_high_water
    /\ open_fds = DOMAIN probe_states_by_fd
    /\ \A fd \in DOMAIN probe_states_by_fd :
           /\ probe_states_by_fd[fd] \in Records
           /\ ps[probe_states_by_fd[fd]].socket = fd

\* The registry is full of open sockets and one of them belongs to a retry.
C5_Witness ==
    /\ Cardinality(open_fds) = host_count_high_water
    /\ \E id \in Records : ps[id].probes_sent = 2 /\ ps[id].socket # None

\* C6: the registry never holds more than host_count_high_water records,
\* counted by count or by the length of the deque, also inside the refill
\* loop.
C6_Population ==
    /\ count <= host_count_high_water
    /\ Len(probe_states) <= host_count_high_water
    /\ count = Len(probe_states)

\* Inside the refill loop a block-listed record has just been created and
\* fills the registry to the high-water mark.
C6_Witness ==
    /\ pc = "fill_body"
    /\ count = host_count_high_water
    /\ ps[next_probe_id - 1].target_ip \in blocklist

\* C7: probes_sent <= max_probes for every record in every state, and a
\* visit of the send loop to a live left-most record with probes_sent =
\* max_probes and its last send more than per_host_interval ago tombstones
\* that record.
C7_MaxProbes ==
    /\ [](\A id \in Records : ps[id].probes_sent <= max_probes)
    /\ [][(/\ pc = "send"
           /\ packet_counter > 0
           /\ count > 0
           /\ ~peekleft.deleted
           /\ peekleft.probes_sent = max_probes
           /\ now > peekleft.probe_sent_time
                        + inter_packet_interval_per_host)
          => (/\ Head(probe_states) \in DOMAIN ps'
              /\ ps'[Head(probe_states)].deleted)]_vars

\* The send loop has just tombstoned a record that used all its probes.
C7_Witness ==
    /\ pc = "send"
    /\ count > 0
    /\ peekleft.deleted
    /\ peekleft.probes_sent = max_probes
    /\ Silent(Head(probe_states))

Occurrences(s, x) == Cardinality({i \in 1..Len(s) : s[i] = x})

\* C11: a record is tombstoned only after an open or closed verdict was
\* observed for it, or after max_probes attempts and one further
\* per_host_interval without any event.
C11_RetiredByVerdictOrTimeout ==
    \A id \in Records :
        ps[id].deleted =>
            \/ /\ ~Silent(id)
               /\ Classify(poll_type, hist[id].events[1])
                      \in {"open", "closed"}
            \/ /\ Silent(id)
               /\ ps[id].probes_sent = max_probes
               /\ now > ps[id].probe_sent_time
                            + inter_packet_interval_per_host

\* C12: the descriptor of every record that has a socket maps to that record
\* in probe_states_by_fd and occurs exactly once in socket_list and exactly
\* once in the poller's watch list; every descriptor of the map, of
\* socket_list and of the watch list is open.
C12_SocketIndexed ==
    /\ \A id \in Records :
           ps[id].socket # None =>
               /\ ps[id].socket \in DOMAIN probe_states_by_fd
               /\ probe_states_by_fd[ps[id].socket] = id
               /\ Occurrences(socket_list, ps[id].socket) = 1
               /\ Occurrences(fd_list, ps[id].socket) = 1
    /\ \A fd \in DOMAIN probe_states_by_fd : fd \in open_fds
    /\ \A i \in 1..Len(fd_list) : fd_list[i] \in open_fds
    /\ \A i \in 1..Len(socket_list) : socket_list[i] \in open_fds

\* A record holds the socket of a retry while the socket of another record
\* has been closed.
C12_Witness ==
    \E a, b \in Records :
        /\ ps[a].socket # None
        /\ ps[a].probes_sent >= 2
        /\ ps[b].deleted
        /\ ps[b].probes_sent >= 1

\* C13: a tombstoned record has no socket, no descriptor of
\* probe_states_by_fd maps to it, and so no descriptor the poller watches
\* leads the drain to a tombstoned record.
C13_TombstoneHasNoSocket ==
    /\ \A id \in Records : ps[id].deleted => ps[id].socket = None
    /\ \A fd \in DOMAIN probe_states_by_fd :
           ~ps[probe_states_by_fd[fd]].deleted
    /\ \A i \in 1..Len(fd_list) :
           /\ fd_list[i] \in DOMAIN probe_states_by_fd
           /\ ~ps[probe_states_by_fd[fd_list[i]]].deleted

\* A record tombstoned by an event waits in the registry while the poller
\* watches the socket of another record.
C13_Witness ==
    \E a, b \in Records :
        /\ ps[a].deleted
        /\ ~Silent(a)
        /\ ps[b].socket # None
        /\ fd_list # <<>>

\* C14: when a record gets its first probe, every port of lower popularity
\* rank configured for the same host has had its first probe before: its
\* record has been created, and if the registry still holds it, it has
\* been sent.
C14_RankOrder ==
    [][\A b \in Records \cap DOMAIN ps' :
          (ps[b].probes_sent = 0 /\ ps'[b].probes_sent = 1) =>
              /\ \A a \in Records :
                     (/\ ps[a].target_ip = ps[b].target_ip
                      /\ port_sort(ps[a].target_port)
                             < port_sort(ps[b].target_port))
                     => ps[a].probes_sent >= 1
              /\ \A k \in 1..generator_length :
                     (/\ generator_item(k).target_ip = ps[b].target_ip
                      /\ port_sort(generator_item(k).target_port)
                             < port_sort(ps[b].target_port))
                     => k < generator_pos
      ]_vars

\* The registry holds two sent records for one host, for ports of different
\* rank.
C14_Witness ==
    \E a, b \in Records :
        /\ ps[a].target_ip = ps[b].target_ip
        /\ port_sort(ps[a].target_port) < port_sort(ps[b].target_port)
        /\ ps[a].probes_sent >= 1
        /\ ps[b].probes_sent >= 1

\* C15: no record of a block-listed address is ever sent or given a socket;
\* a record of any other address leaves the registry only tombstoned and
\* after it was sent; and the scan ends only when every target has been
\* enumerated.
C15_BlockList ==
    /\ [](\A id \in Records :
              ps[id].target_ip \in blocklist =>
                  /\ ps[id].probes_sent = 0
                  /\ ps[id].socket = None
                  /\ pc = "fill_body")
    /\ [][\A id \in Records \ DOMAIN ps' :
              \/ ps[id].target_ip \in blocklist
              \/ ps[id].deleted /\ ps[id].probes_sent >= 1]_vars
    /\ [](pc = "done" => generator_pos > generator_length)

\* A block-listed target has been skipped and a record of another address
\* has been sent.
C15_Witness ==
    /\ \E k \in 1..(generator_pos - 1) :
           generator_item(k).target_ip \in blocklist
    /\ \E id \in Records :
           ps[id].target_ip \notin blocklist /\ ps[id].probes_sent >= 1

\* C16: over a whole scan each block-listed address produces one skip
\* notice, whatever the number of ports.
C16_OneSkipNotice ==
    /\ \A ip \in IPs : skip_notices[ip] <= 1
    /\ pc = "done" =>
           \A ip \in IPs :
               (ip \in blocklist
                    /\ \E k \in 1..Len(get_targets) : get_targets[k] = ip)
               => skip_notices[ip] = 1

\* C17: while the scan runs, no more than recv_interval plus one sleep (of
\* at most recv_interval) passes without a call of receive_packets.  One
\* more tick is allowed for the granularity of the clock: a sleep that ends
\* exactly when a record falls due is followed by one more.
C17_ReceiveEvery ==
    pc # "done" => now - last_recv_time <= 2 * recv_interval + 1

\* C18: a scan in which no probe is ever sent (every target block-listed)
\* leaves the main loop, makes the final drain and returns without raising.
C18_NoProbeCompletes ==
    probes_sent_count = 0 => pc # "raised"

\* C19: when the soft limit on open files is known, the high-water mark
\* left by set_max_sockets is at most the limit less 10, whatever was asked
\* for.
C19_BelowSoftLimit ==
    (pc = "configured" /\ soft_open_files_limit # None)
        => host_count_high_water <= soft_open_files_limit - 10

\* set_max_sockets did not reduce the mark: what it holds is the value
\* before clamping.
C20_NotClamped ==
    \/ soft_open_files_limit = None
    \/ host_count_high_water # soft_open_files_limit - soft_limit_headroom

\* C20: with max_sockets "auto" the high-water mark before clamping is the
\* integer nearest to 1.5 * per_host_interval / inter_packet_interval.
C20_Rounded ==
    (pc = "configured" /\ max_sockets = auto /\ C20_NotClamped)
        => /\ 2 * (host_count_high_water * queue_length_denominator
                       - queue_length_numerator) <= queue_length_denominator
           /\ 2 * (queue_length_numerator
                       - host_count_high_water * queue_length_denominator)
                  <= queue_length_denominator

\* C20 (amended): with max_sockets "auto" the high-water mark before
\* clamping is 1.5 * per_host_interval / inter_packet_interval with the
\* fraction dropped.
C20_Truncated ==
    (pc = "configured" /\ max_sockets = auto /\ C20_NotClamped)
        => /\ host_count_high_water * queue_length_denominator
                  <= queue_length_numerator
           /\ queue_length_numerator
                  < (host_count_high_water + 1) * queue_length_denominator

\* The defaults (250 kbit/s, 0.5 s): the ratio is 316.72 and the mark 316.
C20_Witness ==
    /\ pc = "configured"
    /\ max_sockets = auto
    /\ soft_open_files_limit = None
    /\ bandwidth_bits_per_second = 250000
    /\ inter_packet_interval_per_host = 5
    /\ host_count_high_water = 316

\* The i-th port of the probe list is in the popularity table.
Ranked(i) ==
    \E k \in 1..Len(port_popularity_nmap) : port_popularity_nmap[k] = probes[i]

\* The position in the popularity table of the i-th port of the probe list.
Rank(i) ==
    CHOOSE k \in 1..Len(port_popularity_nmap) :
        port_popularity_nmap[k] = probes[i]

\* Every port of the probe list is a port number.
ValidPorts == \A i \in 1..Len(probes) : probes[i] \in 1..65535

\* C21: the probe list set_probes leaves holds each port number at most
\* once (shown for lists of valid port numbers).
C21_Deduplicated ==
    (pc = "configured" /\ ValidPorts)
        => \A i, j \in 1..Len(probes) : i # j => probes[i] # probes[j]

\* C22: in the probe list, ports of the popularity table come first, in
\* ascending table position, and the other ports follow in ascending
\* numeric order (shown for lists of valid port numbers).
C22_Ordered ==
    (pc = "configured" /\ ValidPorts)
        => \A i, j \in 1..Len(probes) :
               i < j =>
                   /\ Ranked(j) => Ranked(i)
                   /\ Ranked(i) /\ Ranked(j) => Rank(i) <= Rank(j)
                   /\ ~Ranked(i) /\ ~Ranked(j) => probes[i] <= probes[j]

\* C23: a port outside 1..65535 is refused: set_probes never returns a
\* probe list (from which the records take their target_port) holding one.
C23_PortsInRange ==
    pc = "configured" => \A i \in 1..Len(probes) : probes[i] \in 1..65535

\* The 32-bit value of a yielded address, read from its four numbers.
Value(a) == a[1] * 16777216 + a[2] * 65536 + a[3] * 256 + a[4]

\* The addresses yielded so far are first, first + 1, ... without a gap,
\* none of them beyond last.
Consecutive(first, last) ==
    \A i \in 1..Len(yielded) :
        /\ Value(yielded[i]) = first + i - 1
        /\ Value(yielded[i]) <= last

\* 2 ^ (32 - n) for the netmasks that pass the test.
BlockSize(n) ==
    CASE n = 8 -> 16777216 [] n = 24 -> 256 [] n = 29 -> 8
      [] n = 30 -> 4 [] n = 31 -> 2 [] n = 32 -> 1

\* C24: a CIDR target with a netmask of 8..32 yields the addresses from the
\* network address to the broadcast address, each once and in ascending
\* order; with another netmask it yields nothing and the program exits.
C24_Cidr ==
    (target # <<>> /\ target.kind = "cidr")
        => IF target.netmask >= 8 /\ target.netmask <= 32
           THEN LET size == BlockSize(target.netmask)
                    first == Value(target.address)
                                 - (Value(target.address) % size)
                IN  /\ pc # "exited"
                    /\ Consecutive(first, first + size - 1)
                    /\ pc = "exhausted" => Len(yielded) = size
           ELSE /\ yielded = <<>>
                /\ pc \in {"string", "exited"}

\* 10.0.0.2/30 has yielded 10.0.0.0 to 10.0.0.3.
C24_Witness ==
    /\ target = [kind |-> "cidr", address |-> <<10, 0, 0, 2>>, netmask |-> 30]
    /\ pc = "exhausted"
    /\ yielded = << <<10, 0, 0, 0>>, <<10, 0, 0, 1>>, <<10, 0, 0, 2>>,
                   <<10, 0, 0, 3>> >>

\* C25: a dashed range yields the addresses from its start to its end, both
\* included, each once and in ascending order; nothing, and no error, when
\* the end is below the start.
C25_Range ==
    (target # <<>> /\ target.kind = "range")
        => LET first == Value(target.start)
               last == Value(target.end)
           IN  /\ pc # "exited"
               /\ Consecutive(first, last)
               /\ pc = "exhausted"
                      => Len(yielded) = IF last < first THEN 0
                                        ELSE last - first + 1

\* 10.0.0.255-10.0.1.0 has yielded its two addresses.
C25_Witness ==
    /\ target = [kind |-> "range", start |-> <<10, 0, 0, 255>>,
                 end |-> <<10, 0, 1, 0>>]
    /\ pc = "exhausted"
    /\ yielded = << <<10, 0, 0, 255>>, <<10, 0, 1, 0>> >>

\* The time key of record id at time t: probe_sent_time + per_host_interval
\* - t, or 0 if never sent.
TimeKey(id, t) ==
    IF ps[id].probe_sent_time = None THEN 0
    ELSE ps[id].probe_sent_time + inter_packet_interval_per_host - t

\* C28: after sort every tombstoned record precedes every live record, live
\* records stand in non-decreasing order of their time key, and live
\* records with equal keys in ascending order of probe_id.
C28_Sorted ==
    pc = "sorted"
        => \A i, j \in 1..Len(probe_states) :
               i < j =>
                   LET a == probe_states[i]
                       b == probe_states[j]
                   IN  /\ ps[b].deleted => ps[a].deleted
                       /\ ~ps[a].deleted /\ ~ps[b].deleted
                              => \/ TimeKey(a, now) < TimeKey(b, now)
                                 \/ /\ TimeKey(a, now) = TimeKey(b, now)
                                    /\ ps[a].probe_id < ps[b].probe_id

\* The time record id falls due: probe_sent_time + per_host_interval, a
\* record never sent being due at once (at t).
DueTime(id, t) ==
    IF ps[id].probe_sent_time = None THEN t
    ELSE ps[id].probe_sent_time + inter_packet_interval_per_host

\* No live record of the registry falls due before the left-most one.
EarliestDueFirst ==
    \A i \in 2..Len(probe_states) :
        ~ps[probe_states[i]].deleted
            => DueTime(probe_states[i], now) >= DueTime(Head(probe_states), now)

\* No live record with a probe left is ready to send (never sent, or its due
\* time reached).
NoneReady ==
    \A i \in 1..Len(probe_states) :
        LET p == ps[probe_states[i]]
        IN  (~p.deleted /\ p.probes_sent < max_probes)
                => /\ p.probe_sent_time # None
                   /\ now < p.probe_sent_time + inter_packet_interval_per_host

LivePositions == {i \in 1..Len(probe_states) : ~ps[probe_states[i]].deleted}

\* The left-most live record is ready to send: never sent, or its due time
\* is reached.
LeftmostLiveReady ==
    \A i \in LivePositions :
        (\A j \in LivePositions : i <= j)
            => LET p == ps[probe_states[i]]
               IN  \/ p.probe_sent_time = None
                   \/ p.probe_sent_time + inter_packet_interval_per_host <= now

\* C29: whenever wait_for_quotas returns, the registry is empty or its
\* left-most live record is ready to send.
C29_LeftmostLiveReady ==
    [][WaitReturn => (count = 0 \/ LeftmostLiveReady)]_vars

\* C30: whenever wait_for_quotas returns with records in the registry, the
\* number of permits computed next, min(get_available_quota_packets(),
\* registry size), is at least 1.
C30_OnePermit ==
    [][(WaitReturn /\ count > 0) => packet_counter' >= 1]_vars

\* The records the enumerator yields for addresses not on the block list.
Wanted ==
    {k \in 1..generator_length : generator_item(k).target_ip \notin blocklist}

\* The main loop of start_scan has exited, with at least one probe sent for
\* every wanted record.
Exited ==
    /\ pc \in {"final", "done", "raised"}
    /\ probes_sent_count >= Cardinality(Wanted)

\* The clock has reached its bound while records are still in the registry
\* or only the drain is left: the scan has not had the time to end.
OutOfTime ==
    /\ now = MaxTime
    /\ count > 0 \/ ~more_hosts

\* C26: as long as time advances, every record for an address not on the
\* block list is eventually sent a probe and the main loop eventually
\* exits, for every accepted configuration.
C26_Exits == <>(Exited \/ OutOfTime)

\* A refill pass ends: the for loop breaks at the high-water mark or the
\* generator is exhausted, and the registry is sorted.
RefillEnds == (RefillKeep /\ pc' = "wait") \/ RefillExhausted

\* The generator has yielded its last record.
EnumeratorConsumed == generator_pos > generator_length

\* The registry stands in the order of sort at time t.
InSortOrder(t) ==
    \A i \in 1..(Len(probe_states) - 1) :
        ~sort_less(ps, probe_states[i + 1], probe_states[i],
                   inter_packet_interval_per_host, t)

\* The refill pass leaves the registry full or the generator consumed, and
\* the registry sorted.
FilledAndSorted ==
    /\ count' = host_count_high_water \/ EnumeratorConsumed'
    /\ InSortOrder(now)'

\* C31: an iteration that finds the registry below the low-water mark and
\* the generator not exhausted refills; when the refill pass ends the
\* registry holds high-water records or the generator is consumed, the
\* registry is sorted, and more_hosts is false exactly when the generator is
\* consumed.
C31_Filling ==
    [][/\ (pc = "top" /\ more_hosts /\ count < host_count_low_water
               /\ pc' # "top") => BeginRefill
       /\ RefillEnds => (FilledAndSorted
                           /\ (more_hosts' <=> ~EnumeratorConsumed'))]_vars

\* The main loop has been left.
LoopLeft == pc \in {"final", "done", "raised"}

\* C32: the main loop is left, and the final drain and the statistics run,
\* only with the generator consumed and the registry empty: no record, live
\* or tombstoned, and no socket remains.
C32_ExitsEmpty ==
    LoopLeft =>
        /\ EnumeratorConsumed /\ ~more_hosts
        /\ count = 0 /\ probe_states = <<>> /\ DOMAIN ps = {}
        /\ socket_list = <<>> /\ fd_list = <<>> /\ open_fds = {}

C32_Witness ==
    /\ pc = "done"
    /\ probes_sent_count >= 2
    /\ replies >= 1

\* The send loop is at a tombstoned record.
AtTombstone ==
    /\ pc = "send"
    /\ packet_counter > 0 /\ count > 0
    /\ ps[Head(probe_states)].deleted

\* C33: a tombstoned record is never sent again (its probes_sent stays, it
\* gets no socket and stays tombstoned while it is in the registry), and
\* when the send loop finds it at the left end it is unlinked: the registry
\* loses its left-most record and one from its count, and nothing is sent.
C33_TombstoneNotSent ==
    [][/\ \A id \in DOMAIN ps :
              (ps[id].deleted /\ id \in DOMAIN ps') =>
                  /\ ps'[id].deleted
                  /\ ps'[id].probes_sent = ps[id].probes_sent
                  /\ ps'[id].socket = None
       /\ AtTombstone =>
              /\ probe_states' = Tail(probe_states)
              /\ count' = count - 1
              /\ Head(probe_states) \notin DOMAIN ps'
              /\ probes_sent_count' = probes_sent_count
              /\ bytes_sent' = bytes_sent
              /\ sockets_created' = sockets_created]_vars

C33_Witness ==
    /\ probes_sent_unlinked >= 1
    /\ count >= 1
    /\ pc = "send"

\* C34: over a whole scan at most one warning is printed for each event mask
\* that is not recognised, on every backend, however many sockets report it.
C34_OneWarningPerMask ==
    \A event \in AllEventMasks : event_warnings[event] <= 1

\* The classification table: for each backend the bits that mean hangup (or
\* readable) and error (or hangup-read), and the verdict for each
\* combination.
TableVerdict(backend, event) ==
    LET bit(b) == (event \div b) % 2 = 1
    IN  CASE backend = "epoll" ->
                 IF bit(EPOLLRDHUP) THEN "closed" ELSE "open"
          [] backend = "poll" ->
                 IF bit(POLLHUP) /\ bit(POLLERR) THEN "closed"
                 ELSE IF bit(POLLHUP) \/ bit(POLLERR) THEN "unexpected"
                 ELSE "open"
          [] backend = "select" ->
                 IF bit(SelectPOLLOUT) /\ bit(SelectPOLLIN) THEN "closed"
                 ELSE IF bit(SelectPOLLOUT) THEN "open"
                 ELSE "unexpected"

\* The records an event is classified for in this step, and the event.
Classified ==
    {id \in DOMAIN hist \cap DOMAIN hist' :
         Len(hist'[id].events) = Len(hist[id].events) + 1}

NewEvent(id) == hist'[id].events[Len(hist'[id].events)]

\* C35: on every backend the verdict for an event mask is the one of the
\* classification table; an open line is printed and the reply count
\* incremented exactly for open verdicts, a closed line is printed exactly
\* for closed verdicts when show_closed_ports is set.
C35_ClassifiedByTable ==
    [][/\ \A id \in Classified :
              LET verdict == TableVerdict(poll_type, NewEvent(id))
              IN  /\ hist'[id].open_lines - hist[id].open_lines
                         = IF verdict = "open" THEN 1 ELSE 0
                  /\ hist'[id].closed_lines - hist[id].closed_lines
                         = IF verdict = "closed" /\ show_closed_ports
                           THEN 1 ELSE 0
       /\ \A id \in (DOMAIN hist \cap DOMAIN hist') \ Classified :
              /\ hist'[id].open_lines = hist[id].open_lines
              /\ hist'[id].closed_lines = hist[id].closed_lines
       /\ replies' - replies
              = Cardinality({id \in Classified :
                    TableVerdict(poll_type, NewEvent(id)) = "open"})]_vars

C35_Witness ==
    /\ poll_type = "poll"
    /\ show_closed_ports
    /\ \E a, b \in Records :
           /\ hist[a].events = <<POLLOUT + POLLHUP>>
           /\ Lines(a) = 0
           /\ hist[b].events = <<POLLOUT + POLLERR + POLLHUP>>
           /\ hist[b].closed_lines = 1

\* The reason a sleep of wait_for_quotas is due to.
SleepCause ==
    IF ~(get_available_bandwidth_quota_packets > 0) THEN "bandwidth_quota"
    ELSE IF ~(get_available_packet_rate_quota_packets > 0) THEN "packet_quota"
    ELSE "port_states"

\* C36: every sleep of wait_for_quotas adds one to the counter of its cause
\* and to no other: bandwidth when the bandwidth quota is not positive, rate
\* when only the packet-rate quota is not positive, per-host when both are
\* positive and the left-most record is not due.
C36_SleepCounted ==
    [][(WaitSleep \/ WaitReceiveSleep) =>
           sleep_reasons' = [sleep_reasons EXCEPT ![SleepCause] = @ + 1]]_vars

\* The wait computed for the left-most record (0 when a quota is the cause
\* of the sleep), and the sleep asked for before it is capped.
ComputedWait ==
    IF SleepCause = "port_states" /\ count > 0
    THEN ps[Head(probe_states)].probe_sent_time
             + inter_packet_interval_per_host - now
    ELSE 0

UncappedWait ==
    IF ComputedWait > inter_packet_interval THEN ComputedWait
    ELSE inter_packet_interval

\* C37: a sleep of wait_for_quotas lasts max(inter_packet_interval, computed
\* wait) capped at recv_interval, so never longer than recv_interval, and
\* when the uncapped wait is longer than recv_interval a receive pass is made
\* before the sleep.
C37_SleepCapped ==
    [][(WaitSleep \/ WaitReceiveSleep) =>
           /\ now' - now = IF UncappedWait > recv_interval THEN recv_interval
                           ELSE UncappedWait
           /\ now' - now <= recv_interval
           /\ UncappedWait > recv_interval => last_recv_time' = now]_vars

C37_Witness ==
    /\ pc = "wait"
    /\ sleep_reasons.port_states >= 2
    /\ last_recv_time = now - recv_interval
    /\ last_recv_time > next_recv_time - recv_interval
    /\ inter_packet_interval = recv_interval

\* The sum of probes_sent over the records of S.
RECURSIVE SumSent(_)
SumSent(S) ==
    IF S = {} THEN 0
    ELSE LET id == CHOOSE id \in S : TRUE
         IN  ps[id].probes_sent + SumSent(S \ {id})

\* The counters agree: bytes with probes, and the probes with those of the
\* records, in the registry and unlinked from it.
Accounted ==
    /\ bytes_sent = packet_overhead * probes_sent_count
    /\ probes_sent_count = SumSent(DOMAIN ps) + probes_sent_unlinked

\* This step sends the left-most record: it and the global count gain one
\* probe, it is stamped and goes to the right end, the other records keep
\* their order and their counts.
OneSent ==
    LET id == Head(probe_states)
    IN  /\ probes_sent_count' = probes_sent_count + 1
        /\ ps'[id].probes_sent = ps[id].probes_sent + 1
        /\ ps'[id].probe_sent_time = now
        /\ probe_states' = Tail(probe_states) \o <<id>>
        /\ \A other \in DOMAIN ps \ {id} :
               /\ other \in DOMAIN ps'
               /\ ps'[other].probes_sent = ps[other].probes_sent

\* C38: in every state bytes_sent = packet_overhead * probes_sent_count and
\* probes_sent_count is the sum of probes_sent over all records created;
\* every send adds one probe to the left-most record and to the global
\* count, stamps the record and rotates exactly it to the right end.
C38_SendAccounting ==
    /\ []Accounted
    /\ [][(probes_sent_count' # probes_sent_count
               \/ bytes_sent' # bytes_sent
               \/ \E id \in DOMAIN ps \cap DOMAIN ps' :
                      ps'[id].probes_sent # ps[id].probes_sent)
              => OneSent]_vars

C38_Witness ==
    /\ probes_sent_count >= 3
    /\ probes_sent_unlinked >= 1
    /\ count >= 2
    /\ \E id \in DOMAIN ps : ps[id].probes_sent = 2

\* C39: whatever connect does short of ending the scan (in progress, network
\* unreachable, complete at once), one socket is created and one connect
\* issued for each probe counted in probes_sent_count.
C39_OneConnectPerProbe ==
    pc # "connect" => sockets_created = probes_sent_count

\* The left-most record is sent in this step and connect fails for its
\* address with ENETUNREACH.
UnreachableSent ==
    /\ probes_sent_count' = probes_sent_count + 1
    /\ ps[Head(probe_states)].target_ip \in unreachable_ips

\* The record sent in this step is accounted as sent, keeps its new socket
\* and stays in the registry, and the send loop goes on.
SentAndKept ==
    LET id == Head(probe_states)
    IN  /\ ps'[id].probes_sent = ps[id].probes_sent + 1
        /\ ps'[id].probes_sent <= max_probes
        /\ ps'[id].probe_sent_time = now
        /\ bytes_sent' = bytes_sent + packet_overhead
        /\ ps'[id].socket # None
        /\ ps'[id].socket \in open_fds'
        /\ ~ps'[id].deleted
        /\ count' = count
        /\ \E i \in 1..Len(probe_states') : probe_states'[i] = id
        /\ pc' = "send"

\* C40: a connect that fails with network unreachable is accounted like a
\* probe sent (probes_sent, probes_sent_count, bytes_sent, probe_sent_time),
\* the record keeps its socket and stays in the registry within its retry
\* budget, the scan goes on, and the warning is printed at most once per
\* address.
C40_UnreachableCounted ==
    /\ [](\A ip \in IPs : unreachable_warnings[ip] <= 1)
    /\ [][UnreachableSent => SentAndKept]_vars

C40_Witness ==
    /\ unreachable_ips = {1}
    /\ unreachable_warnings[1] = 1
    /\ unreachable_warnings[2] = 0
    /\ \E a, b \in DOMAIN ps :
           /\ ps[a].target_ip = 1 /\ ps[a].probes_sent = 2
           /\ ps[b].target_ip = 2 /\ ps[b].probes_sent >= 1
====
